---- MODULE Spec2Model ----
(***************************************************************************)
(* Model of scripts/name_generator.py: the extraction loop over the         *)
(* records of samples/cheatdata.json, the emitter as_string_function and    *)
(* the write of src/data/names.rs.                                          *)
(*                                                                          *)
(* Names are sequences of characters, so that endswith/startswith and the   *)
(* fixed-offset slices are computed as Python computes them.  Identifiers   *)
(* and type names are only ever compared for equality and copied, and are   *)
(* kept as atoms; they are taken to be free of the characters '"' and '\',  *)
(* which the emitter would copy unescaped into the generated literals.      *)
(***************************************************************************)
EXTENDS Integers, Sequences, FiniteSets, TLC

\* Largest number of records of data['Entries'] one run consumes.
MaxRecords == 2

----------------------------------------------------------------------------
\* String literals of the script, as character sequences.

CompanionSuffix == <<"_", "C", "o", "m", "p", "a", "n", "i", "o", "n">>

AnimalPrefix ==
    <<"A", "n", "i", "m", "a", "l", "C", "o", "m", "p", "a", "n", "i", "o", "n",
      "U", "n", "i", "t">>

AzataDragonUnit ==
    <<"A", "z", "a", "t", "a", "D", "r", "a", "g", "o", "n", "U", "n", "i", "t">>

Aivu == <<"A", "i", "v", "u">>

ArmyPrefix == <<"A", "r", "m", "y">>

BlueprintUnit == "Kingmaker.Blueprints.BlueprintUnit"

\* The empty Python string.
EmptyStr == <<>>

----------------------------------------------------------------------------
\* Python string operations.

\* s.startswith(p)
StartsWith(s, p) == Len(s) >= Len(p) /\ SubSeq(s, 1, Len(p)) = p

\* s.endswith(p)
EndsWith(s, p) == Len(s) >= Len(p) /\ SubSeq(s, Len(s) - Len(p) + 1, Len(s)) = p

\* s[k:] for k >= 0
SliceFrom(s, k) == IF k >= Len(s) THEN EmptyStr ELSE SubSeq(s, k + 1, Len(s))

\* s[:-k] for k > 0
SliceDropLast(s, k) == IF k >= Len(s) THEN EmptyStr ELSE SubSeq(s, 1, Len(s) - k)

----------------------------------------------------------------------------
\* The inputs: records of data['Entries'].

Fields == {"Name", "TypeFullName", "Guid"}

NamePrefixes == {EmptyStr, AnimalPrefix, AzataDragonUnit, ArmyPrefix}
NameMiddles  == {EmptyStr, <<"X">>, ArmyPrefix, AzataDragonUnit}
NameSuffixes == {EmptyStr, CompanionSuffix}

Names == {p \o m \o s : p \in NamePrefixes, m \in NameMiddles, s \in NameSuffixes}

TypeNames == {BlueprintUnit, "Kingmaker.Blueprints.BlueprintUnitFact"}

Guids == {"G1", "G2"}

\* Nothing checks that 'Guid' is a non-empty string: a few records carry "".
EmptyGuid == ""
EmptyGuidNames == {CompanionSuffix, <<"X">> \o CompanionSuffix, ArmyPrefix \o <<"X">>}

\* Identifiers the generated functions are called with; "G9" is in no record.
LookupKeys == Guids \cup {EmptyGuid, "G9"}

WellFormedEntries ==
    {[Name |-> n, TypeFullName |-> t, Guid |-> g] : n \in Names, t \in TypeNames, g \in Guids}
    \cup
    {[Name |-> n, TypeFullName |-> t, Guid |-> EmptyGuid] : n \in EmptyGuidNames, t \in TypeNames}

Restrict(f, S) == [x \in S |-> f[x]]

\* Records with one of the three fields absent.  The fields that are present
\* are never classified, so a few names suffice.
MalformedNames == {<<"X">> \o CompanionSuffix, ArmyPrefix \o <<"X">>}

MalformedEntries ==
    {Restrict(e, Fields \ {f}) :
        e \in {w \in WellFormedEntries : w.Name \in MalformedNames}, f \in Fields}

Malformed(e) == DOMAIN e # Fields

\* Value of a Python variable that has not been assigned yet.
Unset == "<unset>"

----------------------------------------------------------------------------
VARIABLES
    pc,          \* position of the script
    entry,       \* loop variable `entry`
    name,        \* module variable `name`
    type,        \* module variable `type`
    guid,        \* module variable `guid`
    companions,  \* list `companions`
    squads,      \* list `squads`
    out,         \* the file src/data/names.rs
    count,       \* number of records the loop has taken from data['Entries']
    cMark,       \* history: Len(companions) when the current record was taken
    sMark        \* history: Len(squads) when the current record was taken

vars == <<pc, entry, name, type, guid, companions, squads, out, count, cMark, sMark>>

----------------------------------------------------------------------------
\* The loop body, lines 33-49: four independent `if` statements run in
\* sequence over the state (name, companions, squads).

BodyState(n, c, s) == [name |-> n, companions |-> c, squads |-> s]

\* Variant: the entry is appended only if its identifier is not listed yet.
RuleCompanionSuffix_Dedup(st, g) ==
    IF EndsWith(st.name, CompanionSuffix)
    THEN LET n == SliceDropLast(st.name, 10)
         IN IF \E i \in DOMAIN st.companions : st.companions[i][1] = g
            THEN BodyState(n, st.companions, st.squads)
            ELSE BodyState(n, Append(st.companions, <<g, n>>), st.squads)
    ELSE st

\* if name.endswith('_Companion'): name = name[:-10]; companions.append(...)
RuleCompanionSuffix(st, g) ==
    IF EndsWith(st.name, CompanionSuffix)
    THEN LET n == SliceDropLast(st.name, 10)
         IN BodyState(n, Append(st.companions, <<g, n>>), st.squads)
    ELSE st

\* Variant: the prefix is cut one character short.
RuleAnimalCompanion_Strip18(st, g) ==
    IF StartsWith(st.name, AnimalPrefix)
    THEN LET n == SliceFrom(st.name, 18)
         IN BodyState(n, Append(st.companions, <<g, n>>), st.squads)
    ELSE st

\* if name.startswith('AnimalCompanionUnit'): name = name[19:]; companions.append(...)
RuleAnimalCompanion(st, g) ==
    IF StartsWith(st.name, AnimalPrefix)
    THEN LET n == SliceFrom(st.name, 19)
         IN BodyState(n, Append(st.companions, <<g, n>>), st.squads)
    ELSE st

\* if name == "AzataDragonUnit": companions.append([guid, "Aivu"])
RuleAzataDragon(st, g) ==
    IF st.name = AzataDragonUnit
    THEN BodyState(st.name, Append(st.companions, <<g, Aivu>>), st.squads)
    ELSE st

\* if name.startswith('Army') and type == '...BlueprintUnit': name = name[4:]; squads.append(...)
RuleArmy(st, t, g) ==
    IF StartsWith(st.name, ArmyPrefix) /\ t = BlueprintUnit
    THEN LET n == SliceFrom(st.name, 4)
         IN BodyState(n, st.companions, Append(st.squads, <<g, n>>))
    ELSE st

LoopBody(n, t, g, c, s) ==
    RuleArmy(
        RuleAzataDragon(
            RuleAnimalCompanion(
                RuleCompanionSuffix(BodyState(n, c, s), g), g), g), t, g)

----------------------------------------------------------------------------
\* The emitter, lines 7-20.  The text is kept as its sequence of lines.

Line(k, t, g, n) == [kind |-> k, type |-> t, guid |-> g, name |-> n]

TextLine(k) == Line(k, "", "", EmptyStr)

\* Variant: no entry is skipped.
ArmLines_NoFilter(entries) ==
    [k \in 1..Len(entries) |-> Line("arm", "", entries[k][1], entries[k][2])]

\* Variant: the entries skipped are those with the empty identifier.
ArmLines_FilterGuid(entries) ==
    LET kept == SelectSeq(entries, LAMBDA e : e[1] # "")
    IN [k \in 1..Len(kept) |-> Line("arm", "", kept[k][1], kept[k][2])]

\* for [guid, name] in entries: if name == "": continue; code += arm
RECURSIVE ArmLines(_)
ArmLines(entries) ==
    IF entries = <<>> THEN <<>>
    ELSE LET e == Head(entries)
         IN IF e[2] = EmptyStr
            THEN ArmLines(Tail(entries))
            ELSE <<Line("arm", "", e[1], e[2])>> \o ArmLines(Tail(entries))

\* Variant: the catch-all arm is written before the entries' arms.
as_string_function_DefaultFirst(t, entries) ==
    <<Line("doc", t, "", EmptyStr), Line("fn", t, "", EmptyStr), TextLine("match")>>
    \o <<TextLine("default")>>
    \o ArmLines(entries)
    \o <<TextLine("close_match"), TextLine("close_fn")>>

\* Variant: the catch-all arm is left out.
as_string_function_NoDefault(t, entries) ==
    <<Line("doc", t, "", EmptyStr), Line("fn", t, "", EmptyStr), TextLine("match")>>
    \o ArmLines(entries)
    \o <<TextLine("close_match"), TextLine("close_fn")>>

as_string_function(t, entries) ==
    <<Line("doc", t, "", EmptyStr), Line("fn", t, "", EmptyStr), TextLine("match")>>
    \o ArmLines(entries)
    \o <<TextLine("default"), TextLine("close_match"), TextLine("close_fn")>>

\* Lines 52-56: the whole artifact.
NamesFile(s, c) ==
    <<TextLine("use"), TextLine("blank")>>
    \o as_string_function("squad", s)
    \o <<TextLine("blank")>>
    \o as_string_function("companion", c)

----------------------------------------------------------------------------
\* The generated Rust `match s { ... }`: the arms are tried in textual order.

None == [tag |-> "None", val |-> EmptyStr]
Some(n) == [tag |-> "Some", val |-> n]
\* No arm covers the argument: the generated match is not exhaustive.
NoArm == [tag |-> "NoArm", val |-> EmptyStr]

RECURSIVE rust_match(_, _, _)
rust_match(text, i, s) ==
    IF i > Len(text) THEN NoArm
    ELSE IF text[i].kind = "arm"
         THEN IF text[i].guid = s THEN Some(text[i].name) ELSE rust_match(text, i + 1, s)
         ELSE IF text[i].kind = "default" THEN None ELSE NoArm

\* Call of <t>_as_string(s) in the text: the function's match starts two
\* lines after its signature.
FnLine(text, t) == CHOOSE i \in 1..Len(text) : text[i].kind = "fn" /\ text[i].type = t

as_string(text, t, s) == rust_match(text, FnLine(text, t) + 2, s)

----------------------------------------------------------------------------
\* The file src/data/names.rs.

Untouched == [state |-> "untouched", text |-> <<>>]
Truncated == [state |-> "open", text |-> <<>>]
Written(text) == [state |-> "written", text |-> text]

----------------------------------------------------------------------------
Init ==
    /\ pc = "load"
    /\ entry = Unset
    /\ name = Unset
    /\ type = Unset
    /\ guid = Unset
    /\ companions = <<>>
    /\ squads = <<>>
    /\ out = Untouched
    /\ count = 0
    /\ cMark = 0
    /\ sMark = 0

\* Lines 24-26: the input opens and parses, and has an 'Entries' member.
LoadInput ==
    /\ pc = "load"
    /\ pc' = "loop"
    /\ UNCHANGED <<entry, name, type, guid, companions, squads, out, count, cMark, sMark>>

\* Lines 24-28: open, json.load or data['Entries'] raises.
LoadFails ==
    /\ pc = "load"
    /\ pc' = "aborted"
    /\ UNCHANGED <<entry, name, type, guid, companions, squads, out, count, cMark, sMark>>

\* Lines 28-49: one iteration over a record that has the three fields.
ProcessEntry ==
    /\ pc = "loop"
    /\ count < MaxRecords
    /\ \E e \in WellFormedEntries :
          LET st == LoopBody(e.Name, e.TypeFullName, e.Guid, companions, squads)
          IN /\ entry' = e
             /\ name' = st.name
             /\ type' = e.TypeFullName
             /\ guid' = e.Guid
             /\ companions' = st.companions
             /\ squads' = st.squads
    /\ count' = count + 1
    /\ cMark' = Len(companions)
    /\ sMark' = Len(squads)
    /\ UNCHANGED <<pc, out>>

\* Variant: a record that lacks a field is skipped and the loop goes on.
RejectEntry_Skip ==
    /\ pc = "loop"
    /\ count < MaxRecords
    /\ \E e \in MalformedEntries :
          /\ entry' = e
          /\ name' = IF "Name" \in DOMAIN e THEN e.Name ELSE name
          /\ type' = IF {"Name", "TypeFullName"} \subseteq DOMAIN e
                     THEN e.TypeFullName ELSE type
          /\ guid' = guid
    /\ pc' = "loop"
    /\ count' = count + 1
    /\ cMark' = Len(companions)
    /\ sMark' = Len(squads)
    /\ UNCHANGED <<companions, squads, out>>

\* Lines 28-31: a record lacks a field; the subscript raises KeyError and the
\* script ends.  The assignments before the failing line have taken place.
RejectEntry ==
    /\ pc = "loop"
    /\ count < MaxRecords
    /\ \E e \in MalformedEntries :
          /\ entry' = e
          /\ name' = IF "Name" \in DOMAIN e THEN e.Name ELSE name
          /\ type' = IF {"Name", "TypeFullName"} \subseteq DOMAIN e
                     THEN e.TypeFullName ELSE type
          /\ guid' = guid
    /\ pc' = "aborted"
    /\ count' = count + 1
    /\ cMark' = Len(companions)
    /\ sMark' = Len(squads)
    /\ UNCHANGED <<companions, squads, out>>

\* Line 28: the iterator is exhausted.
EndLoop ==
    /\ pc = "loop"
    /\ pc' = "open"
    /\ UNCHANGED <<entry, name, type, guid, companions, squads, out, count, cMark, sMark>>

\* Line 51: open('src/data/names.rs', 'w') truncates the file.
OpenOutput ==
    /\ pc = "open"
    /\ out' = Truncated
    /\ pc' = "write"
    /\ UNCHANGED <<entry, name, type, guid, companions, squads, count, cMark, sMark>>

\* Lines 52-58: render both functions and write them.
WriteOutput ==
    /\ pc = "write"
    /\ out' = Written(NamesFile(squads, companions))
    /\ pc' = "done"
    /\ UNCHANGED <<entry, name, type, guid, companions, squads, count, cMark, sMark>>

Next ==
    \/ LoadInput
    \/ LoadFails
    \/ ProcessEntry
    \/ RejectEntry
    \/ EndLoop
    \/ OpenOutput
    \/ WriteOutput

Spec == Init /\ [][Next]_vars

----------------------------------------------------------------------------
\* Vocabulary of the properties.

\* The last record taken was well formed and its iteration has completed.
Processed == count > 0 /\ ~Malformed(entry)

\* What the last record appended to each list.
AddedC == SubSeq(companions, cMark + 1, Len(companions))
AddedS == SubSeq(squads, sMark + 1, Len(squads))

Range(q) == {q[i] : i \in DOMAIN q}

Prefixes(q) == {SubSeq(q, 1, k) : k \in 0..Len(q)}
Suffixes(q) == {SubSeq(q, k + 1, Len(q)) : k \in 0..Len(q)}

Categories == {"squad", "companion"}

EntriesOf(t) == IF t = "squad" THEN squads ELSE companions

NonEmptyName(e) == e[2] # EmptyStr

\* The arms and catch-all of <t>_as_string in the text: the lines between its
\* `match s {` and the closing of the match.
FnClose(text, t) ==
    CHOOSE j \in FnLine(text, t)..Len(text) :
        /\ text[j].kind = "close_match"
        /\ \A k \in FnLine(text, t)..(j - 1) : text[k].kind # "close_match"

FnArms(text, t) == SubSeq(text, FnLine(text, t) + 2, FnClose(text, t) - 1)

ArmsOnly(text, t) == SelectSeq(FnArms(text, t), LAMBDA l : l.kind = "arm")

\* Position of the first entry of q with identifier g and a non-empty name.
FirstNamed(q, g) ==
    CHOOSE p \in DOMAIN q :
        /\ q[p][1] = g /\ NonEmptyName(q[p])
        /\ \A r \in 1..(p - 1) : ~(q[r][1] = g /\ NonEmptyName(q[r]))

HasNamed(q, g) == \E p \in DOMAIN q : q[p][1] = g /\ NonEmptyName(q[p])

IsPrefix(a, b) == Len(a) <= Len(b) /\ SubSeq(b, 1, Len(a)) = a

MatchesCompanionRule(n) ==
    EndsWith(n, CompanionSuffix) \/ StartsWith(n, AnimalPrefix) \/ n = AzataDragonUnit

\* The classification as an else-if chain over the original displayName.
ChainC(e) ==
    IF EndsWith(e.Name, CompanionSuffix) THEN <<<<e.Guid, SliceDropLast(e.Name, 10)>>>>
    ELSE IF StartsWith(e.Name, AnimalPrefix) THEN <<<<e.Guid, SliceFrom(e.Name, 19)>>>>
    ELSE IF e.Name = AzataDragonUnit THEN <<<<e.Guid, Aivu>>>>
    ELSE <<>>

ChainS(e) ==
    IF /\ ~MatchesCompanionRule(e.Name)
       /\ StartsWith(e.Name, ArmyPrefix)
       /\ e.TypeFullName = BlueprintUnit
    THEN <<<<e.Guid, SliceFrom(e.Name, 4)>>>>
    ELSE <<>>

----------------------------------------------------------------------------
\* C1: no record contributes entries to both categories: a record that
\* appends to companions appends nothing to squads, and conversely.
C1_OneCategoryPerRecord ==
    Processed => ~(AddedC # <<>> /\ AddedS # <<>>)

\* C2: the rules form an else-if chain: only the first rule the original
\* displayName matches is applied, so a record appends at most one entry,
\* the one that rule gives, and no rule sees an already stripped name.
C2_ElseIfChain ==
    Processed =>
        /\ Len(AddedC) + Len(AddedS) <= 1
        /\ AddedC = ChainC(entry)
        /\ AddedS = ChainS(entry)

\* C3: a record appends to squads only if its original displayName begins
\* with Army and its kindTag is the unit blueprint type, and the entry is
\* then (identifier, displayName without its first 4 characters).
C3_SquadsOnlyArmyUnits ==
    Processed =>
        (AddedS # <<>> =>
            /\ StartsWith(entry.Name, ArmyPrefix)
            /\ entry.TypeFullName = BlueprintUnit
            /\ \E y \in Suffixes(entry.Name) :
                  /\ ArmyPrefix \o y = entry.Name
                  /\ AddedS = <<<<entry.Guid, y>>>>)

\* C4: X + _Companion yields (identifier, X); otherwise AnimalCompanionUnit + Y
\* yields (identifier, Y); otherwise AzataDragonUnit yields (identifier, Aivu);
\* the entry is appended to companions by the record itself.
C4_CompanionNames ==
    Processed =>
        IF \E x \in Prefixes(entry.Name) : x \o CompanionSuffix = entry.Name
        THEN \E x \in Prefixes(entry.Name) :
                /\ x \o CompanionSuffix = entry.Name
                /\ Len(x) = Len(entry.Name) - 10
                /\ <<entry.Guid, x>> \in Range(AddedC)
        ELSE IF \E y \in Suffixes(entry.Name) : AnimalPrefix \o y = entry.Name
        THEN \E y \in Suffixes(entry.Name) :
                /\ AnimalPrefix \o y = entry.Name
                /\ Len(y) = Len(entry.Name) - 19
                /\ <<entry.Guid, y>> \in Range(AddedC)
        ELSE (entry.Name = AzataDragonUnit
                => <<entry.Guid, <<"A", "i", "v", "u">>>> \in Range(AddedC))

\* A second record of the form AnimalCompanionUnit + Y, Y non-empty, has
\* appended its entry.
C4_Witness ==
    /\ Processed
    /\ count = 2
    /\ ~EndsWith(entry.Name, CompanionSuffix)
    /\ StartsWith(entry.Name, AnimalPrefix)
    /\ Len(entry.Name) > 19
    /\ AddedC # <<>>

\* C5: extraction does not deduplicate (a record that matches a rule appends
\* even when its identifier is already listed), and in the written artifact
\* the lookup of an identifier returns the name of the first entry of the
\* category that has this identifier and a non-empty name.
C5_FirstMatchWins ==
    /\ Processed =>
          /\ (MatchesCompanionRule(entry.Name) => Len(AddedC) >= 1)
          /\ (StartsWith(entry.Name, ArmyPrefix) /\ entry.TypeFullName = BlueprintUnit
                => Len(AddedS) >= 1)
    /\ pc = "done" =>
          \A t \in Categories :
              \A q \in DOMAIN EntriesOf(t) :
                  LET e == EntriesOf(t)[q]
                  IN NonEmptyName(e) =>
                        as_string(out.text, t, e[1])
                            = Some(EntriesOf(t)[FirstNamed(EntriesOf(t), e[1])][2])

\* Two records with the same identifier gave companions two different
\* non-empty names, and the artifact is written.
C5_Witness ==
    /\ pc = "done"
    /\ Processed
    /\ \E p \in 1..cMark : \E q \in (cMark + 1)..Len(companions) :
          /\ companions[p][1] = companions[q][1]
          /\ NonEmptyName(companions[p])
          /\ NonEmptyName(companions[q])
          /\ companions[p][2] # companions[q][2]
          /\ as_string(out.text, "companion", companions[q][1]) = Some(companions[p][2])

\* The extraction half of C6: a record whose name is exactly a stripped
\* literal appends an entry with the empty name.
EmptyNameAppended ==
    Processed =>
        /\ (entry.Name \in {CompanionSuffix, AnimalPrefix}
              => <<entry.Guid, EmptyStr>> \in Range(AddedC))
        /\ (entry.Name = ArmyPrefix /\ entry.TypeFullName = BlueprintUnit
              => <<entry.Guid, EmptyStr>> \in Range(AddedS))

\* No arm of the artifact has the empty name.
NoEmptyNameArm ==
    pc = "done" =>
        \A t \in Categories : \A l \in Range(ArmsOnly(out.text, t)) : l.name # EmptyStr

\* The last record's resolved name, by the rule its displayName matches, is
\* the empty string.
ResolvesEmpty(e) ==
    \/ ChainC(e) = <<<<e.Guid, EmptyStr>>>>
    \/ ChainS(e) = <<<<e.Guid, EmptyStr>>>>

\* C6 as stated: a record whose resolved name is empty is appended, is never
\* rendered as an arm, and the lookup of its identifier returns None.
C6_EmptyNameLookupNone ==
    /\ EmptyNameAppended
    /\ NoEmptyNameArm
    /\ (pc = "done" /\ Processed /\ ResolvesEmpty(entry)) =>
          LET t == IF AddedS # <<>> THEN "squad" ELSE "companion"
          IN as_string(out.text, t, entry.Guid) = None

\* C6 amended: an entry with the empty name is appended, is never rendered as
\* an arm, and the lookup of its identifier returns None exactly when no entry
\* of the same category has this identifier and a non-empty name.
C6_EmptyNameExcluded ==
    /\ EmptyNameAppended
    /\ NoEmptyNameArm
    /\ pc = "done" =>
          \A t \in Categories : \A e \in Range(EntriesOf(t)) :
              ~NonEmptyName(e) =>
                  (as_string(out.text, t, e[1]) = None <=> ~HasNamed(EntriesOf(t), e[1]))

\* A record named exactly _Companion was appended with the empty name and
\* the lookup of its identifier falls through to the catch-all.
C6_Witness ==
    /\ pc = "done"
    /\ Processed
    /\ entry.Name = CompanionSuffix
    /\ <<entry.Guid, EmptyStr>> \in Range(AddedC)
    /\ cMark > 0
    /\ as_string(out.text, "companion", entry.Guid) = None

\* C7: a record that lacks a field ends the run at that record: it appends
\* nothing, nothing runs after it, and the output is neither opened nor
\* written; the output is touched only after the loop has ended over
\* well-formed records.
C7_FailFast ==
    /\ (count > 0 /\ Malformed(entry)) =>
          /\ pc = "aborted"
          /\ out = Untouched
          /\ Len(companions) = cMark
          /\ Len(squads) = sMark
    /\ pc = "aborted" => out = Untouched /\ ~ENABLED Next
    /\ out # Untouched =>
          /\ pc \in {"write", "done"}
          /\ (count > 0 => ~Malformed(entry))
    /\ out.state = "written" <=> pc = "done"

\* A malformed record arrived after a record that was classified.
C7_Witness ==
    /\ pc = "aborted"
    /\ count = 2
    /\ Malformed(entry)
    /\ Len(companions) + Len(squads) > 0
    /\ out = Untouched

\* The arms of each function of the artifact are the category's entries with
\* a non-empty name, in order, followed by one catch-all.
ArmsMirrorEntries ==
    pc = "done" =>
        \A t \in Categories :
            LET kept == SelectSeq(EntriesOf(t), NonEmptyName)
            IN FnArms(out.text, t)
                  = [k \in 1..Len(kept) |-> Line("arm", "", kept[k][1], kept[k][2])]
                    \o <<TextLine("default")>>

\* C8: the match arms of each rendered function are exactly the category's
\* entries without the empty-name ones, one arm per entry, in input order
\* (the lists only grow at their end), followed by exactly one catch-all.
C8_ArmsInInputOrder ==
    /\ []ArmsMirrorEntries
    /\ [][IsPrefix(companions, companions') /\ IsPrefix(squads, squads')]_vars

\* The artifact is written from companions that hold an empty-name entry
\* between two named entries, and has fewer arms than there are entries.
C8_Witness ==
    /\ pc = "done"
    /\ Len(companions) >= 3
    /\ \E p, q, r \in DOMAIN companions :
          /\ p < q /\ q < r
          /\ NonEmptyName(companions[p])
          /\ ~NonEmptyName(companions[q])
          /\ NonEmptyName(companions[r])
    /\ Len(ArmsOnly(out.text, "companion")) < Len(companions)

\* C9 as stated: every arm of the artifact has a non-empty identifier and a
\* non-empty name.
C9_ArmsNonEmpty ==
    pc = "done" =>
        \A t \in Categories : \A l \in Range(ArmsOnly(out.text, t)) :
            l.guid # "" /\ l.name # EmptyStr

\* C9 amended: every arm has a non-empty name, and its identifier is the
\* Guid of the record that produced it, copied as it is (so it is empty only
\* if that Guid is).
C9_ArmsNamedGuidCopied ==
    /\ pc = "done" =>
          \A t \in Categories : \A l \in Range(ArmsOnly(out.text, t)) :
              /\ l.name # EmptyStr
              /\ <<l.guid, l.name>> \in Range(EntriesOf(t))
    /\ Processed =>
          \A e \in Range(AddedC) \cup Range(AddedS) : e[1] = entry.Guid

\* The artifact holds an arm with the empty identifier and one with a
\* non-empty identifier.
C9_Witness ==
    /\ pc = "done"
    /\ \E l, m \in Range(ArmsOnly(out.text, "companion")) : l.guid = "" /\ m.guid # ""

\* C10: a call of a generated function with any identifier returns
\* Some(name) of one of its arms or None, never fails, and returns None
\* exactly when no arm has that identifier.
C10_LookupTotal ==
    pc = "done" =>
        \A t \in Categories : \A s \in LookupKeys :
            LET r == as_string(out.text, t, s)
                arms == Range(ArmsOnly(out.text, t))
            IN /\ r.tag \in {"Some", "None"}
               /\ (r.tag = "None" <=> \A l \in arms : l.guid # s)
               /\ (r.tag = "Some" => \E l \in arms : l.guid = s /\ l.name = r.val)

\* An identifier no record has falls through to None while a listed one
\* returns its name.
C10_Witness ==
    /\ pc = "done"
    /\ as_string(out.text, "squad", "G9") = None
    /\ as_string(out.text, "squad", "G1").tag = "Some"
    /\ as_string(out.text, "companion", "G1") = None

====
